---- MODULE Spec2Model ----
(***************************************************************************)
(* Namespace diagnostic engine of openzeppelin-vscode                      *)
(* (server/src/diagnostics.ts, server/src/helpers/slang.ts).               *)
(*                                                                         *)
(* A document is a concrete syntax tree held in pre-order: node i is       *)
(* followed by its descendants, `size` counts the nodes of its subtree.    *)
(* A terminal carries its text as a sequence of tokens; the tokens " " and *)
(* "\n" are white space.  Text offsets are counted in tokens.              *)
(*                                                                         *)
(* With(e, LAMBDA v : body) evaluates e once and names the value v, the    *)
(* way a `const v = e` of the source does.                                 *)
(***************************************************************************)
EXTENDS Integers, Sequences, FiniteSets, TLC

\* ------------------------------------------------------------------ bounds
MaxStructs == 2
MaxVars == 2
MaxContracts == 2
MaxPragmas == 2
MaxExprs == 2

\* ------------------------------------------------------- sequence helpers
With(e, F(_)) == CHOOSE r \in {F(v) : v \in {e}} : TRUE

\* The concatenation of ss[lo], ..., ss[hi].
RECURSIVE FlattenRange(_, _, _)
FlattenRange(ss, lo, hi) ==
    IF lo > hi THEN <<>>
    ELSE IF lo = hi THEN ss[lo]
    ELSE FlattenRange(ss, lo, (lo + hi) \div 2) \o FlattenRange(ss, (lo + hi) \div 2 + 1, hi)

Flatten(ss) == With(ss, LAMBDA s : FlattenRange(s, 1, Len(s)))

\* The string made of the tokens toks[lo], ..., toks[hi].
RECURSIVE JoinRange(_, _, _)
JoinRange(toks, lo, hi) ==
    IF lo > hi THEN ""
    ELSE IF lo = hi THEN toks[lo]
    ELSE JoinRange(toks, lo, (lo + hi) \div 2) \o JoinRange(toks, (lo + hi) \div 2 + 1, hi)

JoinTokens(toks) == With(toks, LAMBDA s : JoinRange(s, 1, Len(s)))

Min(S) == CHOOSE x \in S : \A y \in S : x <= y
Max(S) == CHOOSE x \in S : \A y \in S : x >= y

SeqsUpTo(S, n) == UNION {[1..k -> S] : k \in 0..n}

\* The numbers of S in ascending order.
SortedSeq(S) ==
    With(S, LAMBDA s :
        [k \in 1..Cardinality(s) |-> CHOOSE x \in s : Cardinality({y \in s : y <= x}) = k])

\* ------------------------------------------------------------ syntax tree
\* A terminal node: kind and literal text.
Terminal(kind, text) ==
    <<[kind |-> kind, term |-> TRUE, text |-> text, size |-> 1, valid |-> TRUE]>>

\* A nonterminal node followed by the subtrees of its children.
Nonterminal(kind, children) ==
    With(Flatten(children), LAMBDA below :
        <<[kind |-> kind, term |-> FALSE, text |-> <<>>,
           size |-> 1 + Len(below), valid |-> TRUE]>> \o below)

\* The same subtree, marked as one that does not parse in isolation.
Unparseable(tree) == With(tree, LAMBDA n : <<[n[1] EXCEPT !.valid = FALSE]>> \o Tail(n))

LastOf(t, i) == i + t[i].size - 1

\* Number of text units of the nodes lo..hi.
RECURSIVE TextLen(_, _, _)
TextLen(t, lo, hi) ==
    IF lo > hi THEN 0
    ELSE IF lo = hi THEN (IF t[lo].term THEN Len(t[lo].text) ELSE 0)
    ELSE TextLen(t, lo, (lo + hi) \div 2) + TextLen(t, (lo + hi) \div 2 + 1, hi)

\* Number of text units up to the end of node n's own text, in pre-order.
TextLenUpTo(t, n) == TextLen(t, 1, n)

\* cursor.textRange of the node at index i.
TextRangeAt(t, i) ==
    [start |-> TextLenUpTo(t, i - 1), end |-> TextLenUpTo(t, i + t[i].size - 1)]

\* node.unparse(): the text of the subtree, trivia included.
RECURSIVE UnparseFrom(_, _, _)
UnparseFrom(t, i, last) ==
    IF i > last THEN <<>>
    ELSE IF i = last THEN (IF t[i].term THEN t[i].text ELSE <<>>)
    ELSE UnparseFrom(t, i, (i + last) \div 2) \o UnparseFrom(t, (i + last) \div 2 + 1, last)

unparse(t, i) == UnparseFrom(t, i, i + t[i].size - 1)

\* Indices of the direct children of node i.
ChildrenOf(t, i) ==
    {j \in (i + 1)..(i + t[i].size - 1) :
        \A k \in (i + 1)..(j - 1) : k + t[k].size - 1 < j}

\* The children of node i with the given kind, in document order.
ItemsOf(t, i, kind) == SortedSeq({j \in ChildrenOf(t, i) : t[j].kind = kind})

\* The first child of node i with the given kind, 0 when there is none.
ChildOf(t, i, kind) ==
    With({j \in ChildrenOf(t, i) : t[j].kind = kind},
         LAMBDA found : IF found = {} THEN 0 ELSE Min(found))

TriviaKinds ==
    {"EndOfLine", "MultiLineComment", "MultiLineNatSpecComment", "SingleLineComment",
     "SingleLineNatSpecComment", "Whitespace"}

\* node.variant: the child that is not trivia.
VariantOf(t, i) == Min({j \in ChildrenOf(t, i) : ~(t[j].term /\ t[j].kind \in TriviaKinds)})

\* contractDef.name.text, stateVar.name.text
NameText(t, i) == t[ChildOf(t, i, "Identifier")].text

\* ---------------------------------------------------------------- cursor
\* A cursor is confined to the subtree of its root; a move that runs off the
\* subtree leaves it completed at the root, and a completed cursor no longer
\* moves.  A move returns the cursor and whether it moved.
CursorAt(i) == [root |-> i, pos |-> i, completed |-> FALSE]

spawn(c) == CursorAt(c.pos)

goTo(c, cand) ==
    IF c.completed \/ cand = {}
    THEN [c |-> [c EXCEPT !.pos = c.root, !.completed = TRUE], ok |-> FALSE]
    ELSE [c |-> [c EXCEPT !.pos = Min(cand)], ok |-> TRUE]

goToNextTerminal(t, c) ==
    goTo(c, {j \in (c.pos + 1)..LastOf(t, c.root) : t[j].term})

goToNextTerminalWithKind(t, c, kind) ==
    goTo(c, {j \in (c.pos + 1)..LastOf(t, c.root) : t[j].term /\ t[j].kind = kind})

goToNextNonterminalWithKind(t, c, kind) ==
    goTo(c, {j \in (c.pos + 1)..LastOf(t, c.root) : ~t[j].term /\ t[j].kind = kind})

goToPrevious(t, c) ==
    goTo(c, IF c.pos > c.root THEN {c.pos - 1} ELSE {})

\* ------------------------------------------------- helpers/slang.ts
isTriviaKind(kind) ==
    \/ kind = "EndOfLine"
    \/ kind = "MultiLineComment"
    \/ kind = "MultiLineNatSpecComment"
    \/ kind = "SingleLineComment"
    \/ kind = "SingleLineNatSpecComment"
    \/ kind = "Whitespace"

isTrivia(t, i) == t[i].term /\ isTriviaKind(t[i].kind)

\* Moves the cursor to the last terminal: the loop moves on while a clone of
\* the cursor can, so it ends on the last terminal after the cursor and leaves
\* the cursor alone when there is none.
goToLastTerminal(t, cursor) ==
    With({j \in (cursor.pos + 1)..LastOf(t, cursor.root) : t[j].term}, LAMBDA after :
        IF cursor.completed \/ after = {} THEN cursor
        ELSE [cursor EXCEPT !.pos = Max(after)])

RECURSIVE goToFirstNonTrivia(_, _)
goToFirstNonTrivia(t, cursor) ==
    With(cursor, LAMBDA c :
    With(goToNextTerminal(t, c), LAMBDA probe :
        IF ~probe.ok THEN [c |-> c, ok |-> FALSE]
        ELSE IF isTrivia(t, probe.c.pos) THEN goToFirstNonTrivia(t, probe.c)
        ELSE [c |-> probe.c, ok |-> TRUE]))

RECURSIVE goToPreviousTerminalWithKinds(_, _, _)
goToPreviousTerminalWithKinds(t, cursor, kinds) ==
    With(goToPrevious(t, cursor), LAMBDA prev :
        IF ~prev.ok THEN prev
        ELSE IF t[prev.c.pos].term /\ t[prev.c.pos].kind \in kinds THEN prev
        ELSE goToPreviousTerminalWithKinds(t, prev.c, kinds))

NoTrivia == [found |-> FALSE, text |-> <<>>, textRange |-> [start |-> 0, end |-> 0],
             kind |-> "none"]

getLastPrecedingTriviaWithKinds(t, cursor, kinds) ==
    With(goToFirstNonTrivia(t, spawn(cursor)), LAMBDA first :
        IF ~first.ok THEN NoTrivia
        ELSE With(goToPreviousTerminalWithKinds(t, first.c, kinds), LAMBDA back :
                 IF ~back.ok THEN NoTrivia
                 ELSE [found |-> TRUE, text |-> t[back.c.pos].text,
                       textRange |-> TextRangeAt(t, back.c.pos),
                       kind |-> t[back.c.pos].kind]))

getNatSpec(t, cursor) ==
    getLastPrecedingTriviaWithKinds(t, cursor,
        {"MultiLineNatSpecComment", "SingleLineNatSpecComment"})

\* First loop of getTrimmedRange: advance while the terminal reached is trivia.
RECURSIVE SkipLeadingTrivia(_, _)
SkipLeadingTrivia(t, cursor) ==
    With(goToNextTerminal(t, cursor), LAMBDA next :
        IF next.ok /\ isTrivia(t, next.c.pos) THEN SkipLeadingTrivia(t, next.c)
        ELSE next.c)

\* Second loop of getTrimmedRange: step back, then test the node stepped onto.
RECURSIVE TrimmedEnd(_, _, _)
TrimmedEnd(t, cursor, end) ==
    With(goToPrevious(t, cursor), LAMBDA prev :
        IF ~prev.ok THEN end
        ELSE IF t[prev.c.pos].term /\ ~isTrivia(t, prev.c.pos)
             THEN TextRangeAt(t, prev.c.pos).end
        ELSE TrimmedEnd(t, prev.c, end))

getTrimmedRange(t, cursor) ==
    With(SkipLeadingTrivia(t, spawn(cursor)), LAMBDA childCursor :
        [start |-> TextRangeAt(t, childCursor.pos).start,
         end |-> TrimmedEnd(t, goToLastTerminal(t, childCursor),
                            TextRangeAt(t, cursor.pos).end)])

\* TextDocument.positionAt: line and character of an offset, clamped to the text.
positionAt(text, offset) ==
    With(IF offset > Len(text) THEN Len(text) ELSE IF offset < 0 THEN 0 ELSE offset,
         LAMBDA off :
    With({k \in 1..off : text[k] = "\n"}, LAMBDA eols :
        [line |-> Cardinality(eols),
         character |-> off - (IF eols = {} THEN 0 ELSE Max(eols))]))

slangToVSCodeRange(t, slangRange) ==
    With(unparse(t, 1), LAMBDA text :
        [start |-> positionAt(text, slangRange.start),
         end |-> positionAt(text, slangRange.end)])

\* ------------------------------------------- namespace.ts (collaborators)
\* expectedId(prefix, contractName): the prefix, a period, the contract name.
getNamespaceId(namespacePrefix, contractName) ==
    IF namespacePrefix = <<>> THEN contractName
    ELSE namespacePrefix \o <<".">> \o contractName

\* slotHash(namespaceId): a hex string determined by the id, distinct ids
\* giving distinct strings.
calculateERC7201StorageLocation(namespaceId) == "0x#" \o JoinTokens(namespaceId)

\* String equality and String.includes on token texts.
SameText(a, b) == JoinTokens(a) = JoinTokens(b)
includes(text, str) == \E k \in 1..Len(text) : text[k] = str

\* ---------------------------------------------------------- diagnostics
VARIABLE_CAN_BE_NAMESPACED == "VariableCanBeNamespaced"
CONTRACT_CAN_BE_NAMESPACED == "ContractCanBeNamespaced"
NAMESPACE_ID_MISMATCH == "NamespaceIdMismatch"
NAMESPACE_ID_MISMATCH_HASH_COMMENT == "NamespaceIdMismatchHashComment"
NAMESPACE_HASH_MISMATCH == "NamespaceHashMismatch"
NAMESPACE_STANDALONE_HASH_MISMATCH == "NamespaceStandaloneHashMismatch"
VARIABLE_HAS_INITIAL_VALUE == "VariableHasInitialValue"
MULTIPLE_NAMESPACES == "MultipleNamespaces"
DUPLICATE_NAMESPACE_ID == "DuplicateNamespaceId"

NoData == [replacement |-> <<>>, hasReplacement |-> FALSE, variables |-> <<>>]
Replacement(text) == [replacement |-> text, hasReplacement |-> TRUE, variables |-> <<>>]
ContractData(vars) == [replacement |-> <<>>, hasReplacement |-> FALSE, variables |-> vars]

\* The sink appends one record per call.
addDiagnostic(diagnostics, range, severity, code, data) ==
    Append(diagnostics, [range |-> range, severity |-> severity, code |-> code,
                         data |-> data])

getExpectedNamespaceId(t, namespacePrefix, contractDef) ==
    getNamespaceId(namespacePrefix, NameText(t, contractDef))

\* ------------------------------------------------------ regular expressions
IsSpace(tok) == tok = " " \/ tok = "\n"

\* Index of the last token of the run of non-space tokens starting at i
\* (i - 1 when the run is empty).
RECURSIVE RunEnd(_, _)
RunEnd(text, i) ==
    IF i > Len(text) \/ IsSpace(text[i]) THEN i - 1 ELSE RunEnd(text, i + 1)

NoMatch == [matched |-> FALSE, id |-> <<>>]

\* The capture (\S+) starting at token `from`: the whole run for the
\* single-line expression; for the multi-line one, which adds (?=\s|\*\/),
\* the longest part of the run followed by white space or the closing token.
Capture(kind, text, from) ==
    With(RunEnd(text, from), LAMBDA runEnd :
        IF kind = "SingleLineNatSpecComment" THEN SubSeq(text, from, runEnd)
        ELSE With({k \in from..runEnd :
                      k + 1 <= Len(text) /\ (IsSpace(text[k + 1]) \/ text[k + 1] = "*/")},
                  LAMBDA ends : IF ends = {} THEN <<>> ELSE SubSeq(text, from, Max(ends))))

\* natSpec.text.match(regex) of validateNamespaceStructAnnotation
StorageLocationMatch(kind, text) ==
    With([i \in 1..Len(text) |->
             IF /\ i + 3 <= Len(text)
                /\ text[i] = "@custom:storage-location"
                /\ text[i + 1] = " "
                /\ text[i + 2] = "erc7201:"
             THEN Capture(kind, text, i + 3) ELSE <<>>],
         LAMBDA captures :
    With({i \in 1..Len(text) : captures[i] # <<>>}, LAMBDA at :
        IF at = {} THEN NoMatch ELSE [matched |-> TRUE, id |-> captures[Min(at)]]))

FormulaHead == "keccak256(abi.encode(uint256(keccak256(\""
FormulaTail == "\")) - 1)) & ~bytes32(uint256(0xff))"

\* /keccak256\(abi\.encode\(uint256\(keccak256\("(.*)"\)\) *- *1\)\) *& *~bytes32\(uint256\(0xff\)\)/
\* leftmost head, greedy capture up to the last tail on the same line.
FormulaMatch(text) ==
    With([i \in 1..Len(text) |->
             IF text[i] = FormulaHead
             THEN {j \in (i + 1)..Len(text) :
                      /\ text[j] = FormulaTail
                      /\ \A k \in (i + 1)..(j - 1) : text[k] # "\n"}
             ELSE {}],
         LAMBDA tails :
    With({i \in 1..Len(text) : tails[i] # {}}, LAMBDA at :
        IF at = {} THEN NoMatch
        ELSE With(Min(at), LAMBDA i :
                 [matched |-> TRUE, id |-> SubSeq(text, i + 1, Max(tails[i]) - 1)])))

\* text.split(/\s+/): the runs of non-space tokens, each joined to a string.
RECURSIVE split(_, _)
split(text, i) ==
    IF i > Len(text) THEN {}
    ELSE IF IsSpace(text[i]) THEN split(text, i + 1)
    ELSE With(RunEnd(text, i), LAMBDA runEnd :
             {JoinTokens(SubSeq(text, i, runEnd))} \cup split(text, runEnd + 1))

\* String.trim
RECURSIVE trim(_)
trim(text) ==
    IF text = <<>> THEN text
    ELSE IF IsSpace(Head(text)) THEN trim(Tail(text))
    ELSE IF IsSpace(text[Len(text)]) THEN trim(SubSeq(text, 1, Len(text) - 1))
    ELSE text

\* name.match(/suffix$/) on an identifier held as its pieces.
EndsWith(text, suffix) == text # <<>> /\ text[Len(text)] = suffix

\* ------------------------------------------------------ inferUpgradeable
\* contractDef.inheritance?.types.items
InheritanceTypes(t, contractDef) ==
    With(ChildOf(t, contractDef, "InheritanceSpecifier"), LAMBDA inheritance :
        IF inheritance = 0 THEN <<>>
        ELSE ItemsOf(t, ChildOf(t, inheritance, "InheritanceTypes"), "InheritanceType"))

\* type.typeName.items: the identifiers of the base's identifier path.
TypeNameItems(t, type) == ItemsOf(t, ChildOf(t, type, "IdentifierPath"), "Identifier")

\* types.items.some(type => type.typeName.items.some(item => item.text === name))
InheritsNamed(t, contractDef, name) ==
    With(InheritanceTypes(t, contractDef), LAMBDA types :
        \E k \in 1..Len(types) :
            With(TypeNameItems(t, types[k]), LAMBDA items :
                \E n \in 1..Len(items) : SameText(t[items[n]].text, <<name>>)))

\* functionDef.parameters.parameters.items
ParameterItems(t, functionDef) ==
    ItemsOf(t, ChildOf(t, ChildOf(t, functionDef, "ParametersDeclaration"), "Parameters"),
            "Parameter")

IsAuthorizeUpgrade(t, functionDef) ==
    With(ParameterItems(t, functionDef), LAMBDA items :
        /\ SameText(t[VariantOf(t, ChildOf(t, functionDef, "FunctionName"))].text,
                    <<"_authorizeUpgrade">>)
        /\ Len(items) = 1
        /\ SameText(unparse(t, ChildOf(t, items[1], "TypeName")), <<"address">>))

RECURSIVE HasAuthorizeUpgrade(_, _)
HasAuthorizeUpgrade(t, functionCursor) ==
    With(goToNextNonterminalWithKind(t, functionCursor, "FunctionDefinition"), LAMBDA next :
        IF ~next.ok THEN FALSE
        ELSE IF IsAuthorizeUpgrade(t, next.c.pos) THEN TRUE
        ELSE HasAuthorizeUpgrade(t, next.c))

HasUpgradesAnnotation(t, cursor) ==
    With(getNatSpec(t, cursor), LAMBDA natSpec :
        /\ natSpec.found
        /\ With(split(natSpec.text, 1), LAMBDA natSpecTokens :
               \/ "@custom:oz-upgrades" \in natSpecTokens
               \/ "@custom:oz-upgrades-from" \in natSpecTokens))

inferUpgradeable(t, cursor) ==
    IF \/ InheritsNamed(t, cursor.pos, "Initializable")
       \/ InheritsNamed(t, cursor.pos, "UUPSUpgradeable")
    THEN TRUE
    ELSE IF HasAuthorizeUpgrade(t, spawn(cursor)) THEN TRUE
    ELSE IF HasUpgradesAnnotation(t, cursor) THEN TRUE
    ELSE FALSE

\* ---------------------------------------- validateNamespaceableContract
validateNamespaceableContract(t, cursor, diagnostics, namespaceableContract) ==
    IF Len(namespaceableContract.variables) > 0
    THEN With(goToNextTerminalWithKind(t, spawn(cursor), "Identifier").c,
              LAMBDA contractChildCursor :
             addDiagnostic(diagnostics,
                 slangToVSCodeRange(t,
                     [start |-> TextRangeAt(t, contractChildCursor.pos).start,
                      end |-> TextRangeAt(t, cursor.pos).end]),
                 "Hint", CONTRACT_CAN_BE_NAMESPACED,
                 ContractData(namespaceableContract.variables)))
    ELSE diagnostics

\* ---------------------------------------- validateNamespaceableVariables
\* stateVar.attributes.items: the keyword of each attribute.
AttributeKinds(t, stateVar) ==
    With(ChildOf(t, stateVar, "StateVariableAttributes"), LAMBDA attributes :
        IF attributes = 0 THEN <<>>
        ELSE With(ItemsOf(t, attributes, "StateVariableAttribute"), LAMBDA items :
                 [k \in 1..Len(items) |-> t[VariantOf(t, items[k])].kind]))

IsIgnoredAttribute(kind) == kind = "ImmutableKeyword" \/ kind = "ConstantKeyword"

\* The entry pushed to namespaceableContract.variables.
NamespaceableVariable(t, stateVar, attributes, range) ==
    [content |-> IF \E k \in 1..Len(attributes) : ~IsIgnoredAttribute(attributes[k])
                 THEN unparse(t, ChildOf(t, stateVar, "TypeName")) \o <<" ">>
                      \o NameText(t, stateVar) \o <<";">>
                 ELSE trim(unparse(t, stateVar)),
     name |-> NameText(t, stateVar),
     range |-> range,
     publicGetter |-> \E k \in 1..Len(attributes) : attributes[k] = "PublicKeyword"]

\* One state variable: what the loop body does with it.
ClassifyVariable(t, childCursor, diagnostics, variables, skipDiagnostic) ==
    With(AttributeKinds(t, childCursor.pos), LAMBDA attributes :
        IF \E k \in 1..Len(attributes) : IsIgnoredAttribute(attributes[k])
        THEN [diagnostics |-> diagnostics, variables |-> variables]
        ELSE With(slangToVSCodeRange(t, getTrimmedRange(t, childCursor)), LAMBDA range :
            IF ChildOf(t, childCursor.pos, "StateVariableDefinitionValue") # 0
            THEN [diagnostics |-> IF skipDiagnostic THEN diagnostics
                                  ELSE addDiagnostic(diagnostics, range, "Warning",
                                                     VARIABLE_HAS_INITIAL_VALUE, NoData),
                  variables |-> variables]
            ELSE [diagnostics |-> IF skipDiagnostic THEN diagnostics
                                  ELSE addDiagnostic(diagnostics, range, "Information",
                                                     VARIABLE_CAN_BE_NAMESPACED, NoData),
                  variables |-> Append(variables,
                      NamespaceableVariable(t, childCursor.pos, attributes, range))]))

\* The loop over the state variables.  A variable that does not parse in
\* isolation gives a tree with skipped or missing nodes, and reading the typed
\* view of such a tree raises an error that nothing here catches.
RECURSIVE VariablesLoop(_, _, _, _, _)
VariablesLoop(t, childCursor, diagnostics, variables, skipDiagnostic) ==
    With(goToNextNonterminalWithKind(t, childCursor, "StateVariableDefinition"),
         LAMBDA next :
        IF ~next.ok
        THEN [diagnostics |-> diagnostics, variables |-> variables, thrown |-> FALSE]
        ELSE IF ~t[next.c.pos].valid
        THEN [diagnostics |-> diagnostics, variables |-> variables, thrown |-> TRUE]
        ELSE With(ClassifyVariable(t, next.c, diagnostics, variables, skipDiagnostic),
                  LAMBDA r :
                 VariablesLoop(t, next.c, r.diagnostics, r.variables, skipDiagnostic)))

validateNamespaceableVariables(t, cursor, diagnostics, skipDiagnostic) ==
    VariablesLoop(t, spawn(cursor), diagnostics, <<>>, skipDiagnostic)

\* ------------------------------------- validateNamespaceStructAnnotation
\* FoundNamespaceId with the quick fix built from the id that was found.
FoundNamespaceIdFromMatch(t, natSpec, id, expectedNamespaceId, diagnostics, foundNamespaceIds) ==
    [diagnostics |->
         IF ~SameText(id, expectedNamespaceId)
         THEN addDiagnostic(diagnostics, slangToVSCodeRange(t, natSpec.textRange),
                  "Information", NAMESPACE_ID_MISMATCH,
                  Replacement(<<"///", " ", "@custom:storage-location", " ", "erc7201:">>
                              \o id))
         ELSE diagnostics,
     foundNamespaceIds |->
         Append(foundNamespaceIds, [namespaceId |-> id, textRange |-> natSpec.textRange])]

\* The body of the loop on one struct whose annotation matched.
FoundNamespaceId(t, natSpec, id, expectedNamespaceId, diagnostics, foundNamespaceIds) ==
    [diagnostics |->
         IF ~SameText(id, expectedNamespaceId)
         THEN addDiagnostic(diagnostics, slangToVSCodeRange(t, natSpec.textRange),
                  "Information", NAMESPACE_ID_MISMATCH,
                  Replacement(<<"///", " ", "@custom:storage-location", " ", "erc7201:">>
                              \o expectedNamespaceId))
         ELSE diagnostics,
     foundNamespaceIds |->
         Append(foundNamespaceIds, [namespaceId |-> id, textRange |-> natSpec.textRange])]

\* The loop over the struct definitions: collects the annotated ids and
\* reports each id that differs from the expected one.
RECURSIVE StructLoop(_, _, _, _, _)
StructLoop(t, structCursor, expectedNamespaceId, diagnostics, foundNamespaceIds) ==
    With(goToNextNonterminalWithKind(t, structCursor, "StructDefinition"), LAMBDA next :
        IF ~next.ok
        THEN [diagnostics |-> diagnostics, foundNamespaceIds |-> foundNamespaceIds]
        ELSE With(getNatSpec(t, next.c), LAMBDA natSpec :
             With(IF natSpec.found THEN StorageLocationMatch(natSpec.kind, natSpec.text)
                  ELSE NoMatch, LAMBDA match :
             With(IF match.matched
                  THEN FoundNamespaceId(t, natSpec, match.id, expectedNamespaceId,
                                        diagnostics, foundNamespaceIds)
                  ELSE [diagnostics |-> diagnostics,
                        foundNamespaceIds |-> foundNamespaceIds], LAMBDA r :
                 StructLoop(t, next.c, expectedNamespaceId, r.diagnostics,
                            r.foundNamespaceIds)))))

\* self.findIndex(t => t.namespaceId === value.namespaceId)
findIndex(self, namespaceId) ==
    Min({k \in 1..Len(self) : SameText(self[k].namespaceId, namespaceId)})

\* foundNamespaceIds.filter((value, index, self) => findIndex(...) !== index)
duplicateNamespaceIds(foundNamespaceIds) ==
    With(SelectSeq([k \in 1..Len(foundNamespaceIds) |->
                       [index |-> k, value |-> foundNamespaceIds[k]]],
                   LAMBDA e : findIndex(foundNamespaceIds, e.value.namespaceId) # e.index),
         LAMBDA kept : [n \in 1..Len(kept) |-> kept[n].value])

\* for (const namespaceId of list) addDiagnostic(...)
RECURSIVE AddForEach(_, _, _, _, _)
AddForEach(t, diagnostics, list, severity, code) ==
    IF list = <<>> THEN diagnostics
    ELSE AddForEach(t,
             addDiagnostic(diagnostics, slangToVSCodeRange(t, Head(list).textRange),
                           severity, code, NoData),
             Tail(list), severity, code)

Undefined == [namespaceId |-> <<>>, textRange |-> [start |-> 0, end |-> 0],
              defined |-> FALSE]

\* ReportNamespaces without the choice between the two reports.
ReportNamespacesBoth(t, diagnostics, foundNamespaceIds) ==
    [diagnostics |->
         IF Len(foundNamespaceIds) > 1
         THEN AddForEach(t,
                  AddForEach(t, diagnostics, duplicateNamespaceIds(foundNamespaceIds),
                             "Error", DUPLICATE_NAMESPACE_ID),
                  foundNamespaceIds, "Warning", MULTIPLE_NAMESPACES)
         ELSE diagnostics,
     result |-> IF Len(foundNamespaceIds) = 1
                THEN [namespaceId |-> foundNamespaceIds[1].namespaceId,
                      textRange |-> foundNamespaceIds[1].textRange, defined |-> TRUE]
                ELSE Undefined]

\* The part of validateNamespaceStructAnnotation after the loop.
ReportNamespaces(t, diagnostics, foundNamespaceIds) ==
    [diagnostics |->
         IF Len(foundNamespaceIds) > 1
         THEN With(duplicateNamespaceIds(foundNamespaceIds), LAMBDA dups :
                  IF Len(dups) > 0
                  THEN AddForEach(t, diagnostics, dups, "Error", DUPLICATE_NAMESPACE_ID)
                  ELSE AddForEach(t, diagnostics, foundNamespaceIds, "Warning",
                                  MULTIPLE_NAMESPACES))
         ELSE diagnostics,
     result |-> IF Len(foundNamespaceIds) = 1
                THEN [namespaceId |-> foundNamespaceIds[1].namespaceId,
                      textRange |-> foundNamespaceIds[1].textRange, defined |-> TRUE]
                ELSE Undefined]

validateNamespaceStructAnnotation(t, cursor, namespacePrefix, diagnostics) ==
    With(StructLoop(t, spawn(cursor),
                    getExpectedNamespaceId(t, namespacePrefix, cursor.pos),
                    diagnostics, <<>>),
         LAMBDA loop : ReportNamespaces(t, loop.diagnostics, loop.foundNamespaceIds))

\* --------------------------------------- validateNamespaceCommentAndHash
NoHash == "undefined"

\* The checks of one storage-location variable against the expression the
\* cursor has reached.
CheckHashes(t, spawnedCursor, expectedHashFromNamespace, expectedHashFromComment, commentHasUnexpectedNamespace, diagnostics) ==
    IF t[spawnedCursor.pos].term THEN diagnostics
    ELSE With(unparse(t, spawnedCursor.pos), LAMBDA text :
         With(slangToVSCodeRange(t, getTrimmedRange(t, spawnedCursor)), LAMBDA range :
         With(IF expectedHashFromComment # NoHash /\ ~includes(text, expectedHashFromComment)
              THEN addDiagnostic(diagnostics, range, "Warning", NAMESPACE_HASH_MISMATCH,
                                 Replacement(<<expectedHashFromComment>>))
              ELSE diagnostics, LAMBDA d1 :
             IF /\ ~commentHasUnexpectedNamespace
                /\ expectedHashFromNamespace # expectedHashFromComment
                /\ ~includes(text, expectedHashFromNamespace)
             THEN addDiagnostic(d1, range, "Warning", NAMESPACE_STANDALONE_HASH_MISMATCH,
                                Replacement(<<expectedHashFromNamespace>>))
             ELSE d1)))

IsStorageLocationName(name) ==
    EndsWith(name, "_STORAGE_LOCATION") \/ EndsWith(name, "StorageLocation")

\* CheckComment without the record of the mismatch.
CheckCommentUnrecorded(t, comment, expectedNamespaceId, diagnostics) ==
    With(IF comment.found THEN FormulaMatch(comment.text) ELSE NoMatch, LAMBDA match :
        [diagnostics |->
             IF match.matched /\ ~SameText(match.id, expectedNamespaceId)
             THEN addDiagnostic(diagnostics, slangToVSCodeRange(t, comment.textRange),
                      "Warning", NAMESPACE_ID_MISMATCH_HASH_COMMENT,
                      Replacement(<<"//", " ", FormulaHead>> \o expectedNamespaceId
                                  \o <<FormulaTail>>))
             ELSE diagnostics,
         commentHasUnexpectedNamespace |-> FALSE,
         expectedHashFromComment |->
             IF match.matched THEN calculateERC7201StorageLocation(match.id) ELSE NoHash])

\* The first half of the loop body: the comment before the variable.
CheckComment(t, comment, expectedNamespaceId, diagnostics) ==
    With(IF comment.found THEN FormulaMatch(comment.text) ELSE NoMatch, LAMBDA match :
    With(match.matched /\ ~SameText(match.id, expectedNamespaceId),
         LAMBDA commentHasUnexpectedNamespace :
        [diagnostics |->
             IF commentHasUnexpectedNamespace
             THEN addDiagnostic(diagnostics, slangToVSCodeRange(t, comment.textRange),
                      "Warning", NAMESPACE_ID_MISMATCH_HASH_COMMENT,
                      Replacement(<<"//", " ", FormulaHead>> \o expectedNamespaceId
                                  \o <<FormulaTail>>))
             ELSE diagnostics,
         commentHasUnexpectedNamespace |-> commentHasUnexpectedNamespace,
         expectedHashFromComment |->
             IF match.matched THEN calculateERC7201StorageLocation(match.id) ELSE NoHash]))

\* The two cursor moves made for a storage-location variable.
GoToExpression(t, spawnedCursor) ==
    goToNextNonterminalWithKind(t,
        goToNextNonterminalWithKind(t, spawnedCursor, "StateVariableDefinitionValue").c,
        "Expression").c

\* The loop over the state variables; `visited` records the nodes the loop
\* body ran on.
RECURSIVE HashLoop(_, _, _, _, _)
HashLoop(t, spawnedCursor, expectedNamespaceId, diagnostics, visited) ==
    With(goToNextNonterminalWithKind(t, spawnedCursor, "StateVariableDefinition"),
         LAMBDA next :
        IF ~next.ok THEN [diagnostics |-> diagnostics, visited |-> visited]
        ELSE With(CheckComment(t,
                      getLastPrecedingTriviaWithKinds(t, next.c,
                          {"SingleLineComment", "MultiLineComment"}),
                      expectedNamespaceId, diagnostics), LAMBDA c :
             IF IsStorageLocationName(NameText(t, next.c.pos))
             THEN With(GoToExpression(t, next.c), LAMBDA atExpression :
                      HashLoop(t, atExpression, expectedNamespaceId,
                          CheckHashes(t, atExpression,
                              calculateERC7201StorageLocation(expectedNamespaceId),
                              c.expectedHashFromComment, c.commentHasUnexpectedNamespace,
                              c.diagnostics),
                          Append(visited, next.c.pos)))
             ELSE HashLoop(t, next.c, expectedNamespaceId, c.diagnostics,
                           Append(visited, next.c.pos))))

validateNamespaceCommentAndHash(t, expectedNamespaceId, cursor, diagnostics) ==
    HashLoop(t, spawn(cursor), expectedNamespaceId, diagnostics, <<>>)

\* ------------------------------------------------------- the documents
Ws == Terminal("Whitespace", <<" ">>)
Eol == Terminal("EndOfLine", <<"\n">>)

\* A comment on a line of its own.
CommentLine(kind, text) == Terminal(kind, text) \o Eol

IdentifierPath(path) ==
    Nonterminal("IdentifierPath",
        [k \in 1..(2 * Len(path) - 1) |->
            IF k % 2 = 1 THEN Terminal("Identifier", <<path[(k + 1) \div 2]>>)
            ELSE Terminal("Period", <<".">>)])

InheritanceSpecifier(bases) ==
    IF bases = <<>> THEN <<>>
    ELSE Nonterminal("InheritanceSpecifier",
             <<Ws, Terminal("IsKeyword", <<"is">>),
               Nonterminal("InheritanceTypes",
                   [k \in 1..(2 * Len(bases) - 1) |->
                       IF k % 2 = 1
                       THEN Nonterminal("InheritanceType",
                                <<Ws \o IdentifierPath(bases[(k + 1) \div 2])>>)
                       ELSE Terminal("Comma", <<",">>)])>>)

TypeNameNode(type) ==
    Nonterminal("TypeName",
        [k \in 1..Len(type) |->
            IF type[k] = " " THEN Ws ELSE Terminal("Keyword", <<type[k]>>)])

Parameter(type) ==
    Nonterminal("Parameter", <<TypeNameNode(type), Ws, Terminal("Identifier", <<"a">>)>>)

FunctionDefinition(f) ==
    Nonterminal("FunctionDefinition",
        <<Terminal("FunctionKeyword", <<"function">>),
          Nonterminal("FunctionName", <<Ws, Terminal("Identifier", f.name)>>),
          Nonterminal("ParametersDeclaration",
              <<Terminal("OpenParen", <<"(">>),
                Nonterminal("Parameters",
                    [k \in 1..(2 * Len(f.params) - 1) |->
                        IF k % 2 = 1 THEN Parameter(f.params[(k + 1) \div 2])
                        ELSE Terminal("Comma", <<",">>)]),
                Terminal("CloseParen", <<")">>)>>),
          Terminal("Semicolon", <<";">>), Eol>>)

StructDefinition(st) ==
    Nonterminal("StructDefinition",
        <<st.lead, Terminal("StructKeyword", <<"struct">>), Ws,
          Terminal("Identifier", st.name), Ws,
          Terminal("OpenBrace", <<"{">>), Terminal("CloseBrace", <<"}">>), Eol>>)

StateVariableAttributes(attrs) ==
    Nonterminal("StateVariableAttributes",
        [k \in 1..Len(attrs) |->
            Nonterminal("StateVariableAttribute", <<Ws, Terminal(attrs[k], <<attrs[k]>>)>>)])

\* `= <expression>`: the white space before a token is its leading trivia.
StateVariableDefinitionValue(value) ==
    IF value = <<>> THEN <<>>
    ELSE Nonterminal("StateVariableDefinitionValue",
             <<Ws, Terminal("Equal", <<"=">>),
               Nonterminal("Expression",
                   <<Ws \o Flatten([k \in 1..Len(value) |->
                                       Terminal("Literal", <<value[k]>>)])>>)>>)

StateVariableDefinition(v) ==
    LET tree == Nonterminal("StateVariableDefinition",
                    <<v.lead, TypeNameNode(<<"bytes32">>), StateVariableAttributes(v.attrs),
                      Ws, Terminal("Identifier", v.name),
                      StateVariableDefinitionValue(v.value),
                      Terminal("Semicolon", <<";">>), v.trail>>)
    IN  IF v.valid THEN tree ELSE Unparseable(tree)

ContractDefinition(c) ==
    LET tree == Nonterminal("ContractDefinition",
                    <<c.lead, Terminal("ContractKeyword", <<"contract">>), Ws,
                      Terminal("Identifier", c.name), InheritanceSpecifier(c.bases), Ws,
                      Terminal("OpenBrace", <<"{">>), Eol,
                      Nonterminal("ContractMembers", c.members),
                      Terminal("CloseBrace", <<"}">>), c.trail>>)
    IN  IF c.valid THEN tree ELSE Unparseable(tree)

SourceUnit(members) == Nonterminal("SourceUnit", members)

\* ------------------------------------------------------------ the inputs
IdFoo == <<"foo", ".", "Foo">>
IdWrong == <<"Wrong">>

PrefixFoo == <<"foo">>
PrefixWithSpace == <<"my", " ", "project">>

StorageLocationTag == <<"@custom:storage-location", " ", "erc7201:">>

SingleLineAnnotation(id) ==
    CommentLine("SingleLineNatSpecComment", <<"///", " ">> \o StorageLocationTag \o id)
MultiLineAnnotation(id) ==
    CommentLine("MultiLineNatSpecComment",
                <<"/**", "\n", " ", "*", " ">> \o StorageLocationTag \o id \o <<"\n", " ", "*/">>)
MultiLineAnnotationClosed(id) ==
    CommentLine("MultiLineNatSpecComment", <<"/**", " ">> \o StorageLocationTag \o id \o <<"*/">>)

StructLeads ==
    {<<>>, SingleLineAnnotation(IdFoo), SingleLineAnnotation(IdWrong),
     MultiLineAnnotation(IdWrong), MultiLineAnnotationClosed(IdFoo)}

Struct(lead) == StructDefinition([lead |-> lead, name |-> <<"S">>])

FormulaComment(id) ==
    CommentLine("SingleLineComment", <<"//", " ", FormulaHead>> \o id \o <<FormulaTail>>)

HashFoo == calculateERC7201StorageLocation(IdFoo)

Var(lead, attrs, name, value, trail, valid) ==
    StateVariableDefinition([lead |-> lead, attrs |-> attrs, name |-> name,
                             value |-> value, trail |-> trail, valid |-> valid])

LocationName == <<"MAIN", "_STORAGE_LOCATION">>
Constant == <<"PrivateKeyword", "ConstantKeyword">>

PlainVar == Var(<<>>, <<>>, <<"x">>, <<>>, Eol, TRUE)
InitializedVar == Var(<<>>, <<"PublicKeyword">>, <<"y">>, <<"5">>, Eol, TRUE)

VarOptions ==
    {PlainVar,
     InitializedVar,
     Var(<<>>, <<"PublicKeyword">>, <<"z">>, <<>>, <<>>, TRUE),
     Var(<<>>, <<"ImmutableKeyword">>, <<"w">>, <<>>, Eol, TRUE),
     Var(<<>>, <<>>, <<"v">>, <<>>, Eol, FALSE),
     Var(FormulaComment(IdFoo), Constant, LocationName, <<HashFoo>>, Eol, TRUE),
     Var(FormulaComment(IdWrong), Constant, LocationName, <<"0x00">>, Eol, TRUE),
     Var(FormulaComment(IdFoo), Constant, LocationName, <<"0x00">>, Eol, TRUE),
     Var(<<>>, Constant, <<"main", "StorageLocation">>, <<"bytes32", "(", "0x00", ")">>,
         <<>>, TRUE),
     Var(CommentLine("MultiLineComment", <<"/*", " ", "slot", " ", "*/">>), Constant,
         LocationName, <<"0x00">>, Eol, TRUE),
     Var(FormulaComment(IdFoo), <<>>, LocationName, <<>>, Eol, TRUE)}

ContractLeads ==
    {<<>>,
     CommentLine("SingleLineNatSpecComment", <<"///", " ", "@custom:oz-upgrades">>),
     CommentLine("SingleLineNatSpecComment",
                 <<"///", " ", "@custom:oz-upgrades-from", " ", "Prev">>),
     CommentLine("SingleLineNatSpecComment", <<"///", " ", "@title", " ", "T">>),
     CommentLine("MultiLineNatSpecComment", <<"/**", " ", "@custom:oz-upgrades", "*/">>),
     CommentLine("SingleLineNatSpecComment", <<"///", " ", "@custom:oz-upgrades">>)
         \o CommentLine("SingleLineComment", <<"//", " ", "note">>),
     CommentLine("SingleLineNatSpecComment", <<"///", " ", "@custom:oz-upgrades">>)
         \o CommentLine("SingleLineNatSpecComment", <<"///", " ", "@title", " ", "T">>)}

BaseOptions ==
    {<<>>, <<<<"Initializable">>>>, <<<<"Ownable">>, <<"UUPSUpgradeable">>>>,
     <<<<"Initializable", "Inner">>>>, <<<<"lib", "Ownable">>>>,
     <<<<"InitializableUpgradeable">>>>}

Function(name, params) == FunctionDefinition([name |-> <<name>>, params |-> params])

FunctionOptions ==
    {<<>>,
     Function("_authorizeUpgrade", <<<<"address">>>>),
     Function("_authorizeUpgrade", <<<<"address", " ", "payable">>>>),
     Function("_authorizeUpgrade", <<<<"address">>, <<"address">>>>),
     Function("_authorizeUpgrade", <<>>),
     Function("authorize", <<<<"address">>>>),
     Function("authorize", <<<<"uint256">>>>)
         \o Function("_authorizeUpgrade", <<<<"address">>>>)}

Contract(lead, name, bases, members, trail, valid) ==
    ContractDefinition([lead |-> lead, name |-> <<name>>, bases |-> bases,
                        members |-> members, trail |-> trail, valid |-> valid])

\* Contracts that differ in what the upgradeability heuristics read.
HeuristicContracts ==
    {Contract(lead, "Foo", bases, <<Struct(SingleLineAnnotation(IdWrong)), PlainVar,
                                    InitializedVar, fn>>, Eol, TRUE) :
        lead \in ContractLeads, bases \in BaseOptions, fn \in FunctionOptions}

\* Contracts that differ in their struct annotations.
StructContracts ==
    {Contract(<<>>, "Foo", bases, structs \o <<PlainVar>>, Eol, TRUE) :
        bases \in {<<>>, <<<<"Initializable">>>>},
        structs \in {[k \in DOMAIN ls |-> Struct(ls[k])] : ls \in SeqsUpTo(StructLeads, MaxStructs)}}

\* Contracts that differ in their state variables, with one annotated struct.
VariableContracts ==
    {Contract(<<>>, "Foo", bases, <<Struct(SingleLineAnnotation(id))>> \o vars, trail, TRUE) :
        bases \in {<<>>, <<<<"Initializable">>>>}, id \in {IdFoo, IdWrong},
        vars \in SeqsUpTo(VarOptions, MaxVars), trail \in {Eol}}

\* Contracts of the documents that hold several.
SmallContracts ==
    {Contract(<<>>, "Foo", <<<<"Initializable">>>>,
              <<Struct(SingleLineAnnotation(IdWrong)), PlainVar>>, Eol, TRUE),
     Contract(<<>>, "Bar", <<>>, <<PlainVar, InitializedVar>>, <<>>, TRUE),
     Contract(<<>>, "Bad", <<<<"Initializable">>>>,
              <<Struct(SingleLineAnnotation(IdWrong)), PlainVar>>, Eol, FALSE),
     Contract(<<>>, "Baz", <<<<"Initializable">>>>,
              <<PlainVar, Var(<<>>, <<>>, <<"v">>, <<>>, Eol, FALSE), InitializedVar>>,
              Eol, TRUE)}

Documents ==
    {SourceUnit(<<c>>) : c \in HeuristicContracts \cup StructContracts \cup VariableContracts}
    \cup {SourceUnit(cs) : cs \in SeqsUpTo(SmallContracts, MaxContracts) \ {<<>>}}

Inputs ==
    {<<d, PrefixFoo>> : d \in Documents}
    \cup {<<SourceUnit(<<c>>), PrefixWithSpace>> : c \in StructContracts}

\* -------------------------------------------------------------- the state
VARIABLES
    doc,                    \* the parse output: the document's syntax tree
    namespacePrefix,        \* the configured namespace prefix
    pc,                     \* where validateNamespaces stands
    cursor,                 \* its cursor over the document
    diagnostics,            \* the diagnostics list handed in by the caller
    inferredUpgradeable,    \* of the contract at the cursor
    foundSingleNamespace,   \* of the contract at the cursor
    namespaceableContract,  \* of the contract at the cursor
    visited,                \* state variables the hash validator's loop ran on
    log,                    \* one entry per contract the outer loop has handled
    applied,                \* the quick fix applied before this pass, if any
    matches,                \* version inference: the query matches not yet taken
    possibleHighestVersions,\* version inference: the maxima collected so far
    highestVersion          \* version inference: the value returned

engineVars == <<namespacePrefix, cursor, diagnostics, inferredUpgradeable,
                foundSingleNamespace, namespaceableContract, visited, log, applied>>
pragmaVars == <<matches, possibleHighestVersions, highestVersion>>
vars == <<doc, pc, engineVars, pragmaVars>>

Null == "null"

NoFix == [defined |-> FALSE, code |-> "none",
          range |-> [start |-> [line |-> 0, character |-> 0],
                     end |-> [line |-> 0, character |-> 0]]]

NoContract == [name |-> <<>>, variables |-> <<>>]

\* What the pass has done with a contract: "errors" (skipped, line 42),
\* "parsing" (line 45), "validated" (line 61 returned) or "thrown" (an error
\* left validateNamespaces), with the classification and the variables pushed.
LogEntry(contract, status, upgradeable, variables) ==
    [contract |-> contract, status |-> status, upgradeable |-> upgradeable,
     variables |-> variables]

StartPass ==
    /\ pc = "scan"
    /\ cursor = CursorAt(1)
    /\ diagnostics = <<>>
    /\ inferredUpgradeable = FALSE
    /\ foundSingleNamespace = Undefined
    /\ namespaceableContract = NoContract
    /\ visited = <<>>
    /\ log = <<>>

Init ==
    /\ \E in \in Inputs : doc = in[1] /\ namespacePrefix = in[2]
    /\ applied = NoFix
    /\ StartPass
    /\ matches = <<>>
    /\ possibleHighestVersions = <<>>
    /\ highestVersion = Null

\* validateNamespaces, lines 34-51: the next contract definition, skipped when
\* it does not parse in isolation.
GoToNextContract ==
    /\ pc = "scan"
    /\ \E next \in {goToNextNonterminalWithKind(doc, cursor, "ContractDefinition")} :
           /\ cursor' = next.c
           /\ IF ~next.ok
              THEN /\ pc' = "done"
                   /\ UNCHANGED <<log, namespaceableContract>>
              ELSE IF ~doc[next.c.pos].valid
              THEN /\ pc' = "scan"
                   /\ log' = Append(log, LogEntry(next.c.pos, "errors", FALSE, <<>>))
                   /\ UNCHANGED namespaceableContract
              ELSE /\ pc' = "infer"
                   /\ log' = Append(log, LogEntry(next.c.pos, "parsing", FALSE, <<>>))
                   /\ namespaceableContract' =
                          [name |-> NameText(doc, next.c.pos), variables |-> <<>>]
    /\ UNCHANGED <<doc, namespacePrefix, diagnostics, inferredUpgradeable,
                   foundSingleNamespace, visited, applied, pragmaVars>>

InferUpgradeable ==
    /\ pc = "infer"
    /\ inferredUpgradeable' = inferUpgradeable(doc, cursor)
    /\ pc' = IF inferredUpgradeable' THEN "annotation" ELSE "variables"
    /\ foundSingleNamespace' = Undefined
    /\ visited' = <<>>
    /\ UNCHANGED <<doc, namespacePrefix, cursor, diagnostics, namespaceableContract, log,
                   applied, pragmaVars>>

ValidateNamespaceStructAnnotation ==
    /\ pc = "annotation"
    /\ \E r \in {validateNamespaceStructAnnotation(doc, cursor, namespacePrefix,
                                                    diagnostics)} :
           /\ diagnostics' = r.diagnostics
           /\ foundSingleNamespace' = r.result
           /\ pc' = IF r.result.defined THEN "hash" ELSE "variables"
    /\ UNCHANGED <<doc, namespacePrefix, cursor, inferredUpgradeable, namespaceableContract,
                   visited, log, applied, pragmaVars>>

\* ValidateNamespaceCommentAndHash handing over the id derived from the prefix
\* and the contract's name instead of the id found in the annotation.
ValidateNamespaceCommentAndHashCanonical ==
    /\ pc = "hash"
    /\ \E r \in {validateNamespaceCommentAndHash(doc,
                        getNamespaceId(namespacePrefix, NameText(doc, cursor.pos)),
                        cursor, diagnostics)} :
           /\ diagnostics' = r.diagnostics
           /\ visited' = r.visited
    /\ pc' = "variables"
    /\ UNCHANGED <<doc, namespacePrefix, cursor, inferredUpgradeable, foundSingleNamespace,
                   namespaceableContract, log, applied, pragmaVars>>

\* validateNamespaces, line 57.
ValidateNamespaceCommentAndHash ==
    /\ pc = "hash"
    /\ \E r \in {validateNamespaceCommentAndHash(doc, foundSingleNamespace.namespaceId,
                                                  cursor, diagnostics)} :
           /\ diagnostics' = r.diagnostics
           /\ visited' = r.visited
    /\ pc' = "variables"
    /\ UNCHANGED <<doc, namespacePrefix, cursor, inferredUpgradeable, foundSingleNamespace,
                   namespaceableContract, log, applied, pragmaVars>>

ValidateNamespaceableVariables ==
    /\ pc = "variables"
    /\ \E r \in {validateNamespaceableVariables(doc, cursor, diagnostics,
                                                 ~inferredUpgradeable)} :
           /\ diagnostics' = r.diagnostics
           /\ namespaceableContract' = [namespaceableContract EXCEPT !.variables = r.variables]
           /\ pc' = IF r.thrown THEN "thrown" ELSE "contract"
           /\ log' = IF r.thrown
                     THEN Append(log, LogEntry(cursor.pos, "thrown", inferredUpgradeable,
                                               r.variables))
                     ELSE log
    /\ UNCHANGED <<doc, namespacePrefix, cursor, inferredUpgradeable, foundSingleNamespace,
                   visited, applied, pragmaVars>>

ValidateNamespaceableContract ==
    /\ pc = "contract"
    /\ diagnostics' = validateNamespaceableContract(doc, cursor, diagnostics,
                                                    namespaceableContract)
    /\ log' = Append(log, LogEntry(cursor.pos, "validated", inferredUpgradeable,
                                    namespaceableContract.variables))
    /\ pc' = "scan"
    /\ UNCHANGED <<doc, namespacePrefix, cursor, inferredUpgradeable, foundSingleNamespace,
                   namespaceableContract, visited, applied, pragmaVars>>

\* ------------------------------------------------------- the quick fix
\* The terminal a diagnostic's range covers exactly: a comment, or the literal
\* of an initializer.
FixTargets(t, range) ==
    {i \in 1..Len(t) :
        /\ t[i].term
        /\ t[i].kind \in {"SingleLineComment", "MultiLineComment",
                          "SingleLineNatSpecComment", "MultiLineNatSpecComment", "Literal"}
        /\ slangToVSCodeRange(t, TextRangeAt(t, i)) = range}

\* The terminal the replacement text is read as when the document is parsed
\* again.
FixedKind(code) ==
    IF code = NAMESPACE_ID_MISMATCH THEN "SingleLineNatSpecComment"
    ELSE IF code = NAMESPACE_ID_MISMATCH_HASH_COMMENT THEN "SingleLineComment"
    ELSE "Literal"

applyQuickFix(t, d) ==
    [t EXCEPT ![Min(FixTargets(t, d.range))] =
        [@ EXCEPT !.kind = FixedKind(d.code), !.text = d.data.replacement]]

\* The editor replaces the text at a diagnostic's range by the diagnostic's
\* replacement and the engine runs again on the result.
ApplyQuickFix ==
    /\ pc = "done"
    /\ ~applied.defined
    /\ \E k \in 1..Len(diagnostics) :
          /\ diagnostics[k].data.hasReplacement
          /\ FixTargets(doc, diagnostics[k].range) # {}
          /\ doc' = applyQuickFix(doc, diagnostics[k])
          /\ applied' = [defined |-> TRUE, code |-> diagnostics[k].code,
                         range |-> diagnostics[k].range]
    /\ pc' = "scan"
    /\ cursor' = CursorAt(1)
    /\ diagnostics' = <<>>
    /\ inferredUpgradeable' = FALSE
    /\ foundSingleNamespace' = Undefined
    /\ namespaceableContract' = NoContract
    /\ visited' = <<>>
    /\ log' = <<>>
    /\ UNCHANGED <<namespacePrefix, pragmaVars>>

Next ==
    \/ GoToNextContract
    \/ InferUpgradeable
    \/ ValidateNamespaceStructAnnotation
    \/ ValidateNamespaceCommentAndHash
    \/ ValidateNamespaceableVariables
    \/ ValidateNamespaceableContract
    \/ ApplyQuickFix

Spec == Init /\ [][Next]_vars

\* ------------------------------------------ getHighestSupportedPragmaVersion
\* The versions named in the documents, as major, minor and patch.
parse(version) ==
    CASE version = "0.7.6" -> <<0, 7, 6>>
      [] version = "0.8.0" -> <<0, 8, 0>>
      [] version = "0.8.9" -> <<0, 8, 9>>
      [] version = "0.8.10" -> <<0, 8, 10>>
      [] version = "0.8.28" -> <<0, 8, 28>>
      [] version = "0.8.30" -> <<0, 8, 30>>
      [] version = "0.9.0" -> <<0, 9, 0>>

\* Language.supportedVersions(), in ascending order.
allSolidityVersions == <<"0.7.6", "0.8.0", "0.8.9", "0.8.10", "0.8.28">>

\* semver's order on versions.
lt(a, b) ==
    \/ a[1] < b[1]
    \/ a[1] = b[1] /\ a[2] < b[2]
    \/ a[1] = b[1] /\ a[2] = b[2] /\ a[3] < b[3]

gte(a, b) == ~lt(a, b)

\* The first version a caret range excludes.
CaretBound(v) ==
    IF v[1] > 0 THEN <<v[1] + 1, 0, 0>>
    ELSE IF v[2] > 0 THEN <<0, v[2] + 1, 0>>
    ELSE <<0, 0, v[3] + 1>>

\* semver.satisfies(version, range) for a range of one comparator, a caret or
\* tilde range, a hyphen range `a - b`, or `*`.
satisfies(version, range) ==
    With(parse(version), LAMBDA v :
        IF range = <<"*">> THEN TRUE
        ELSE IF Len(range) = 1 THEN v = parse(range[1])
        ELSE IF Len(range) = 5 THEN gte(v, parse(range[1])) /\ ~lt(parse(range[5]), v)
        ELSE With(parse(range[2]), LAMBDA b :
            CASE range[1] = "=" -> v = b
              [] range[1] = ">" -> lt(b, v)
              [] range[1] = ">=" -> gte(v, b)
              [] range[1] = "<" -> lt(v, b)
              [] range[1] = "<=" -> ~lt(b, v)
              [] range[1] = "^" -> gte(v, b) /\ lt(v, CaretBound(b))
              [] range[1] = "~" -> gte(v, b) /\ lt(v, <<b[1], b[2] + 1, 0>>)))

\* semver.maxSatisfying(versions, range): the highest version of the list that
\* satisfies the range, null when none does.
maxSatisfying(versions, range) ==
    With({k \in 1..Len(versions) : satisfies(versions[k], range)}, LAMBDA sat :
        IF sat = {} THEN Null
        ELSE versions[CHOOSE k \in sat :
                          \A j \in sat : ~lt(parse(versions[k]), parse(versions[j]))])

\* cursor.query([query]): the VersionExpressionSet nodes, in document order.
VersionExpressionSets(t) ==
    SortedSeq({i \in 1..Len(t) : ~t[i].term /\ t[i].kind = "VersionExpressionSet"})

\* The loop over the children of one version expression set.
RECURSIVE PushMaxima(_, _, _)
PushMaxima(t, versionExpressions, possible) ==
    IF versionExpressions = <<>> THEN possible
    ELSE With(maxSatisfying(allSolidityVersions,
                            trim(unparse(t, Head(versionExpressions)))),
              LAMBDA max :
             PushMaxima(t, Tail(versionExpressions),
                        IF max # Null THEN Append(possible, max) ELSE possible))

\* ------------------------------------------------- the pragma documents
VersionExpression(range) ==
    Nonterminal("VersionExpression",
        <<Ws \o Flatten([k \in 1..Len(range) |->
                            IF range[k] = " " THEN Ws
                            ELSE Terminal("VersionToken", <<range[k]>>)])>>)

VersionExpressionSet(ranges) ==
    Nonterminal("VersionExpressionSet", [k \in 1..Len(ranges) |-> VersionExpression(ranges[k])])

PragmaDirective(ranges) ==
    Nonterminal("PragmaDirective",
        <<Terminal("PragmaKeyword", <<"pragma">>), Ws,
          Terminal("SolidityKeyword", <<"solidity">>),
          VersionExpressionSet(ranges), Terminal("Semicolon", <<";">>), Eol>>)

RangeOptions ==
    {<<">=", "0.8.0">>, <<"<", "0.8.10">>, <<"^", "0.7.6">>, <<"0.8.9">>,
     <<">", "0.8.30">>, <<"~", "0.8.9">>, <<"0.8.0", " ", "-", " ", "0.8.10">>,
     <<"<=", "0.8.0">>, <<"=", "0.8.10">>}

PragmaOptions == SeqsUpTo(RangeOptions, MaxExprs) \ {<<>>}

\* Documents of pragma directives.
PragmaDocuments ==
    {SourceUnit([k \in DOMAIN ps |-> PragmaDirective(ps[k])]) :
        ps \in SeqsUpTo(PragmaOptions, MaxPragmas)}

\* -------------------------------------------- version inference, the state
InitPragma ==
    /\ doc \in PragmaDocuments
    /\ namespacePrefix = <<>>
    /\ pc = "query"
    /\ cursor = CursorAt(1)
    /\ diagnostics = <<>>
    /\ inferredUpgradeable = FALSE
    /\ foundSingleNamespace = Undefined
    /\ namespaceableContract = NoContract
    /\ visited = <<>>
    /\ log = <<>>
    /\ applied = NoFix
    /\ matches = <<>>
    /\ possibleHighestVersions = <<>>
    /\ highestVersion = Null

\* lines 138-148: parse and query.
QueryVersionExpressionSets ==
    /\ pc = "query"
    /\ matches' = VersionExpressionSets(doc)
    /\ pc' = "matches"
    /\ UNCHANGED <<doc, engineVars, possibleHighestVersions, highestVersion>>

\* lines 151-170: one match of the query.
NextMatch ==
    /\ pc = "matches"
    /\ matches # <<>>
    /\ possibleHighestVersions' =
           PushMaxima(doc, SortedSeq(ChildrenOf(doc, Head(matches))),
                      possibleHighestVersions)
    /\ matches' = Tail(matches)
    /\ UNCHANGED <<doc, pc, engineVars, highestVersion>>

\* line 172
ReturnHighest ==
    /\ pc = "matches"
    /\ matches = <<>>
    /\ highestVersion' = maxSatisfying(possibleHighestVersions, <<"*">>)
    /\ pc' = "returned"
    /\ UNCHANGED <<doc, engineVars, matches, possibleHighestVersions>>

NextPragma ==
    \/ QueryVersionExpressionSets
    \/ NextMatch
    \/ ReturnHighest

SpecPragma == InitPragma /\ [][NextPragma]_vars

\* ------------------------------------------------ reading the document
\* What the properties below say about a document is read off its tree,
\* without a cursor.
NodesIn(t, i, kind) == {j \in (i + 1)..LastOf(t, i) : ~t[j].term /\ t[j].kind = kind}

ContractsOf(t) == {i \in 1..Len(t) : ~t[i].term /\ t[i].kind = "ContractDefinition"}

\* The contract a node lies in.
ContractOf(t, i) == CHOOSE c \in ContractsOf(t) : c < i /\ i <= LastOf(t, c)

\* The trivia that precedes the first token of node i.
LeadingTrivia(t, i) ==
    {j \in (i + 1)..LastOf(t, i) :
        /\ t[j].term /\ t[j].kind \in TriviaKinds
        /\ \A k \in (i + 1)..(j - 1) : ~t[k].term \/ t[k].kind \in TriviaKinds}

\* The last comment of the given kinds before the first token of node i, 0
\* when there is none.
PrecedingComment(t, i, kinds) ==
    With({j \in LeadingTrivia(t, i) : t[j].kind \in kinds},
         LAMBDA found : IF found = {} THEN 0 ELSE Max(found))

DocCommentOf(t, i) ==
    PrecedingComment(t, i, {"SingleLineNatSpecComment", "MultiLineNatSpecComment"})

\* The range the editor shows for the text of node i.
ShownRange(t, i) == slangToVSCodeRange(t, TextRangeAt(t, i))

Codes(code) == {k \in DOMAIN diagnostics : diagnostics[k].code = code}
CodesAt(code, range) == {k \in Codes(code) : diagnostics[k].range = range}
CodesFrom(code, start) == {k \in Codes(code) : diagnostics[k].range.start = start}

\* The contracts on which the struct annotation validator has run.
AnnotationValidated ==
    {log[k].contract : k \in {n \in DOMAIN log :
        log[n].status \in {"validated", "thrown"} /\ log[n].upgradeable}}
    \cup (IF pc \in {"hash", "variables", "contract"} /\ inferredUpgradeable
          THEN {cursor.pos} ELSE {})

\* The contracts of the document the pass has finished with, one way or the other.
PassEnded == pc \in {"done", "thrown"}

\* The structs of contract c whose documentation comment carries an id.
AnnotatedStructs(t, c) ==
    {s \in NodesIn(t, c, "StructDefinition") :
        /\ DocCommentOf(t, s) # 0
        /\ StorageLocationMatch(t[DocCommentOf(t, s)].kind, t[DocCommentOf(t, s)].text).matched}

AnnotatedId(t, s) ==
    StorageLocationMatch(t[DocCommentOf(t, s)].kind, t[DocCommentOf(t, s)].text).id

CanonicalId(t, c) == getNamespaceId(namespacePrefix, NameText(t, c))

Embeds(text, part) ==
    \E i \in 1..(Len(text) - Len(part) + 1) : SubSeq(text, i, i + Len(part) - 1) = part

\* ------------------------------------------------------------------- C1
\* The simple name of a base type: the last identifier of its path.
SimpleName(t, type) ==
    t[Max({j \in (type + 1)..LastOf(t, type) : t[j].term /\ t[j].kind = "Identifier"})].text

InheritsUpgradeableBase(t, c) ==
    \E type \in NodesIn(t, c, "InheritanceType") :
        JoinTokens(SimpleName(t, type)) \in {"Initializable", "UUPSUpgradeable"}

DefinesAuthorizeUpgrade(t, c) ==
    \E f \in NodesIn(t, c, "FunctionDefinition") :
        /\ \E n \in NodesIn(t, f, "FunctionName") :
               JoinTokens(trim(unparse(t, n))) = "_authorizeUpgrade"
        /\ Cardinality(NodesIn(t, f, "Parameter")) = 1
        /\ \A p \in NodesIn(t, f, "Parameter") :
               JoinTokens(unparse(t, ChildOf(t, p, "TypeName"))) = "address"

AnnotatedUpgradeable(t, c) ==
    /\ DocCommentOf(t, c) # 0
    /\ split(t[DocCommentOf(t, c)].text, 1)
           \cap {"@custom:oz-upgrades", "@custom:oz-upgrades-from"} # {}

\* C1: for every contract definition inferUpgradeable returns true exactly when
\* a base type has the simple name Initializable or UUPSUpgradeable, or the
\* contract defines _authorizeUpgrade with exactly one parameter of type text
\* `address`, or its documentation comment holds the token @custom:oz-upgrades
\* or @custom:oz-upgrades-from.
C1_InferUpgradeableIffHeuristic ==
    pc \in {"annotation", "variables"} =>
        inferredUpgradeable = (\/ InheritsUpgradeableBase(doc, cursor.pos)
                               \/ DefinesAuthorizeUpgrade(doc, cursor.pos)
                               \/ AnnotatedUpgradeable(doc, cursor.pos))

\* ------------------------------------------------------------------- C2
\* What C2 says of the annotation of struct s in contract c.
MismatchReportedOnce(t, c, s) ==
    With(CodesAt(NAMESPACE_ID_MISMATCH, ShownRange(t, DocCommentOf(t, s))), LAMBDA found :
        IF SameText(AnnotatedId(t, s), CanonicalId(t, c)) THEN found = {}
        ELSE /\ Cardinality(found) = 1
             /\ \A k \in found : /\ diagnostics[k].data.hasReplacement
                                 /\ Embeds(diagnostics[k].data.replacement,
                                           CanonicalId(t, c)))

DuplicatedStructs(t, c) ==
    {s \in AnnotatedStructs(t, c) :
        \E other \in AnnotatedStructs(t, c) \ {s} :
            SameText(AnnotatedId(t, s), AnnotatedId(t, other))}

\* C3: when a contract holds two or more struct annotations with the same id,
\* a DuplicateNamespaceId error is emitted at every occurrence of the id, the
\* first included.
C3_DuplicateAtEveryOccurrence ==
    \A c \in AnnotationValidated : \A s \in DuplicatedStructs(doc, c) :
        With(CodesAt(DUPLICATE_NAMESPACE_ID, ShownRange(doc, DocCommentOf(doc, s))),
             LAMBDA found : /\ Cardinality(found) = 1
                            /\ \A k \in found : diagnostics[k].severity = "Error")

\* ------------------------------------------------------------------- C4
\* C4 as written: the annotations that carry a duplicated id get no
\* MultipleNamespaces and no NamespaceIdMismatch diagnostic, also when the id
\* differs from the canonical id.
C4_OnlyDuplicateReported ==
    \A c \in AnnotationValidated : \A s \in DuplicatedStructs(doc, c) :
        /\ CodesAt(MULTIPLE_NAMESPACES, ShownRange(doc, DocCommentOf(doc, s))) = {}
        /\ CodesAt(NAMESPACE_ID_MISMATCH, ShownRange(doc, DocCommentOf(doc, s))) = {}

\* C4, amended: in a contract with a duplicated id no annotation gets a
\* MultipleNamespaces diagnostic, while NamespaceIdMismatch is not suppressed:
\* an annotation carrying the duplicated id gets exactly one when the id
\* differs from the canonical id, and none when it equals it.
C4_DuplicateSuppressesMultipleOnly ==
    \A c \in AnnotationValidated :
        DuplicatedStructs(doc, c) # {} =>
            /\ \A s \in AnnotatedStructs(doc, c) :
                   CodesAt(MULTIPLE_NAMESPACES, ShownRange(doc, DocCommentOf(doc, s))) = {}
            /\ \A s \in DuplicatedStructs(doc, c) :
                   Cardinality(CodesAt(NAMESPACE_ID_MISMATCH,
                                       ShownRange(doc, DocCommentOf(doc, s))))
                       = IF SameText(AnnotatedId(doc, s), CanonicalId(doc, c)) THEN 0 ELSE 1

C4_Witness ==
    /\ pc = "done"
    /\ \E c \in AnnotationValidated : \E s \in DuplicatedStructs(doc, c) :
           /\ ~SameText(AnnotatedId(doc, s), CanonicalId(doc, c))
           /\ CodesAt(NAMESPACE_ID_MISMATCH, ShownRange(doc, DocCommentOf(doc, s))) # {}
           /\ Codes(DUPLICATE_NAMESPACE_ID) # {}

\* ------------------------------------------------------------------- C5
FormulaCommentOf(t, v) == PrecedingComment(t, v, {"SingleLineComment", "MultiLineComment"})

\* The initializer expression of state variable v, 0 when it has none.
InitializerOf(t, v) ==
    With(ChildOf(t, v, "StateVariableDefinitionValue"), LAMBDA value :
        IF value = 0 THEN 0 ELSE ChildOf(t, value, "Expression"))

\* Where the first token of node i starts.
FirstTokenStart(t, i) ==
    ShownRange(t, Min({j \in (i + 1)..LastOf(t, i) :
                          t[j].term /\ t[j].kind \notin TriviaKinds})).start

\* The id the hash validator expects: that of the contract's one annotation.
ExpectedIdOf(t, c) == AnnotatedId(t, CHOOSE s \in AnnotatedStructs(t, c) : TRUE)

\* The case of C5: a visited variable named ..._STORAGE_LOCATION, the formula
\* in its comment names another id than the expected one, and its initializer
\* holds neither the hash of the comment's id nor the hash of the expected id.
WrongCommentAndHash(t, v) ==
    /\ EndsWith(NameText(t, v), "_STORAGE_LOCATION")
    /\ FormulaCommentOf(t, v) # 0
    /\ InitializerOf(t, v) # 0
    /\ With(FormulaMatch(t[FormulaCommentOf(t, v)].text), LAMBDA match :
           /\ match.matched
           /\ ~SameText(match.id, ExpectedIdOf(t, ContractOf(t, v)))
           /\ ~includes(unparse(t, InitializerOf(t, v)),
                        calculateERC7201StorageLocation(match.id))
           /\ ~includes(unparse(t, InitializerOf(t, v)),
                        calculateERC7201StorageLocation(ExpectedIdOf(t, ContractOf(t, v)))))

\* C5 as written: in that case both NamespaceHashMismatch and
\* NamespaceStandaloneHashMismatch are emitted for the variable.
C5_BothHashDiagnostics ==
    \A n \in DOMAIN visited :
        WrongCommentAndHash(doc, visited[n]) =>
            /\ CodesFrom(NAMESPACE_HASH_MISMATCH,
                         FirstTokenStart(doc, InitializerOf(doc, visited[n]))) # {}
            /\ CodesFrom(NAMESPACE_STANDALONE_HASH_MISMATCH,
                         FirstTokenStart(doc, InitializerOf(doc, visited[n]))) # {}

\* C5, amended: in that case, for a variable the hash validator's scan visits,
\* NamespaceIdMismatchHashComment is emitted at the comment and
\* NamespaceHashMismatch at the initializer, and no
\* NamespaceStandaloneHashMismatch is emitted for the variable.
C5_CommentMismatchSuppressesStandalone ==
    \A n \in DOMAIN visited :
        WrongCommentAndHash(doc, visited[n]) =>
            /\ CodesAt(NAMESPACE_ID_MISMATCH_HASH_COMMENT,
                       ShownRange(doc, FormulaCommentOf(doc, visited[n]))) # {}
            /\ CodesFrom(NAMESPACE_HASH_MISMATCH,
                         FirstTokenStart(doc, InitializerOf(doc, visited[n]))) # {}
            /\ CodesFrom(NAMESPACE_STANDALONE_HASH_MISMATCH,
                         FirstTokenStart(doc, InitializerOf(doc, visited[n]))) = {}

C5_Witness ==
    /\ pc = "done"
    /\ \E n \in DOMAIN visited :
           /\ WrongCommentAndHash(doc, visited[n])
           /\ ~SameText(ExpectedIdOf(doc, ContractOf(doc, visited[n])),
                        CanonicalId(doc, ContractOf(doc, visited[n])))
           /\ Codes(NAMESPACE_HASH_MISMATCH) # {}

\* ------------------------------------------------------------------- C6
\* C6: after the text at the range of a diagnostic that carries a replacement
\* is replaced by it and the engine has run again on the result, no diagnostic
\* with the same code is reported at the same location.
C6_QuickFixIdempotent ==
    (PassEnded /\ applied.defined) =>
        \A k \in DOMAIN diagnostics :
            ~(/\ diagnostics[k].code = applied.code
              /\ diagnostics[k].range.start = applied.range.start)

\* ------------------------------------------------------------------- C7
StateVariablesOf(t, c) == SortedSeq(NodesIn(t, c, "StateVariableDefinition"))

\* The attribute keywords of state variable v.
KeywordsOf(t, v) ==
    {t[j].kind : j \in {k \in (v + 1)..LastOf(t, v) :
        /\ t[k].term /\ t[k].kind \notin TriviaKinds
        /\ \E a \in NodesIn(t, v, "StateVariableAttribute") : a < k /\ k <= LastOf(t, a)}}

\* Neither constant nor immutable, and no initializer.
IsNamespaceable(t, v) ==
    /\ KeywordsOf(t, v) \cap {"ConstantKeyword", "ImmutableKeyword"} = {}
    /\ ChildOf(t, v, "StateVariableDefinitionValue") = 0

NamespaceableNames(t, c) ==
    With(SelectSeq(StateVariablesOf(t, c), LAMBDA v : IsNamespaceable(t, v)),
         LAMBDA kept : [k \in DOMAIN kept |-> NameText(t, kept[k])])

\* The ContractCanBeNamespaced hints of contract c.
HintsOf(t, c) ==
    CodesFrom(CONTRACT_CAN_BE_NAMESPACED, ShownRange(t, ChildOf(t, c, "Identifier")).start)

\* C7: for a contract not classified upgradeable no VariableCanBeNamespaced
\* and no VariableHasInitialValue diagnostic is emitted, the namespaceable
\* list holds every state variable that is neither constant nor immutable and
\* has no initializer, and one ContractCanBeNamespaced hint is emitted exactly
\* when that list is not empty.
C7_CollectedWithoutVariableDiagnostics ==
    \A n \in DOMAIN log :
        (log[n].status \in {"validated", "thrown"} /\ ~log[n].upgradeable) =>
            /\ \A v \in NodesIn(doc, log[n].contract, "StateVariableDefinition") :
                   /\ CodesFrom(VARIABLE_CAN_BE_NAMESPACED, FirstTokenStart(doc, v)) = {}
                   /\ CodesFrom(VARIABLE_HAS_INITIAL_VALUE, FirstTokenStart(doc, v)) = {}
            /\ [k \in DOMAIN log[n].variables |-> log[n].variables[k].name]
                   = NamespaceableNames(doc, log[n].contract)
            /\ Cardinality(HintsOf(doc, log[n].contract))
                   = IF log[n].variables # <<>> THEN 1 ELSE 0

\* ------------------------------------------------------------------- C8
\* The constraint expressions of the document's pragmas, as semver reads them.
ConstraintsOf(t) ==
    {trim(unparse(t, e)) : e \in {i \in 1..Len(t) : ~t[i].term /\ t[i].kind = "VersionExpression"}}

\* The supported versions that satisfy every constraint of the document.
ConsistentVersions(t) ==
    {allSolidityVersions[k] : k \in {n \in DOMAIN allSolidityVersions :
        \A range \in ConstraintsOf(t) : satisfies(allSolidityVersions[n], range)}}

\* C8: whenever getHighestSupportedPragmaVersion returns a version, it is a
\* supported version that satisfies every constraint expression of the
\* document, and no supported version that does so is higher.
C8_HighestConsistentVersion ==
    (pc = "returned" /\ highestVersion # Null) =>
        /\ highestVersion \in ConsistentVersions(doc)
        /\ \A v \in ConsistentVersions(doc) : ~lt(parse(highestVersion), parse(v))

\* ------------------------------------------------------------------- C9
\* The log entries of contract c.
LogOf(c) == {n \in DOMAIN log : log[n].contract = c}

\* C9: validateNamespaces does not throw; when the pass is over a contract that
\* does not parse in isolation has been skipped, and every contract that does
\* has been processed to its end, whatever came before it.
C9_UnparseableFragmentsSkipped ==
    /\ pc # "thrown"
    /\ pc = "done" =>
           \A c \in ContractsOf(doc) :
               IF doc[c].valid
               THEN \E n \in LogOf(c) : log[n].status = "validated"
               ELSE \A n \in LogOf(c) : log[n].status = "errors"

\* ------------------------------------------------------------------ C10
\* The codes whose range is that of a comment.
CommentCodes ==
    {NAMESPACE_ID_MISMATCH, NAMESPACE_ID_MISMATCH_HASH_COMMENT, MULTIPLE_NAMESPACES,
     DUPLICATE_NAMESPACE_ID}

\* The terminals of the document that are comments, and those that are no trivia.
CommentTerminals(t) ==
    {j \in 1..Len(t) : t[j].term /\ t[j].kind \in TriviaKinds \ {"Whitespace", "EndOfLine"}}
TokenTerminals(t) == {j \in 1..Len(t) : t[j].term /\ t[j].kind \notin TriviaKinds}

\* A trimmed range: that of one comment when the diagnostic is about a comment;
\* otherwise one that starts where a token starts and ends where a token ends.
IsTrimmed(t, text, d) ==
    IF d.code \in CommentCodes
    THEN \E j \in CommentTerminals(t) :
             /\ positionAt(text, TextRangeAt(t, j).start) = d.range.start
             /\ positionAt(text, TextRangeAt(t, j).end) = d.range.end
    ELSE /\ \E j \in TokenTerminals(t) :
                positionAt(text, TextRangeAt(t, j).start) = d.range.start
         /\ \E j \in TokenTerminals(t) :
                positionAt(text, TextRangeAt(t, j).end) = d.range.end

\* C10: the range of every emitted diagnostic, of all nine codes, is trimmed:
\* it neither starts nor ends on white space, an end of line or a comment that
\* surrounds what the diagnostic is about; the ContractCanBeNamespaced range,
\* from the contract's name to the end of the contract, included.
C10_EveryRangeTrimmed ==
    diagnostics # <<>> =>
        With(unparse(doc, 1), LAMBDA text :
            \A k \in DOMAIN diagnostics : IsTrimmed(doc, text, diagnostics[k]))

\* ------------------------------------------------------------------ C11
\* Whether the formula in the comment of variable v names another id than id.
CommentNamesOther(t, v, id) ==
    /\ FormulaCommentOf(t, v) # 0
    /\ With(FormulaMatch(t[FormulaCommentOf(t, v)].text), LAMBDA match :
           match.matched /\ ~SameText(match.id, id))

\* The hash the formula in the comment of variable v gives, if there is one.
CommentHash(t, v) ==
    IF FormulaCommentOf(t, v) = 0 THEN NoHash
    ELSE With(FormulaMatch(t[FormulaCommentOf(t, v)].text), LAMBDA match :
             IF match.matched THEN calculateERC7201StorageLocation(match.id) ELSE NoHash)

\* What the standalone check of variable v is when it is decided with id: a
\* NamespaceStandaloneHashMismatch at the initializer exactly when the comment
\* names no other id, the hash of id is not the comment's and the initializer
\* does not hold it; the replacement is the hash of id.
StandaloneDecidedWith(t, v, id) ==
    With(CodesFrom(NAMESPACE_STANDALONE_HASH_MISMATCH,
                   FirstTokenStart(t, InitializerOf(t, v))), LAMBDA found :
        /\ (found # {}) =
               (/\ ~CommentNamesOther(t, v, id)
                /\ calculateERC7201StorageLocation(id) # CommentHash(t, v)
                /\ ~includes(unparse(t, InitializerOf(t, v)),
                             calculateERC7201StorageLocation(id)))
        /\ \A k \in found :
               diagnostics[k].data.replacement = <<calculateERC7201StorageLocation(id)>>)

\* The variables the scan has visited that are named as a storage location
\* and have an initializer.
CheckedLocations ==
    {visited[n] : n \in {k \in DOMAIN visited :
        /\ IsStorageLocationName(NameText(doc, visited[k]))
        /\ InitializerOf(doc, visited[k]) # 0}}

\* C11 as written: the standalone hash check is decided with the canonical id,
\* the one derived from the configured prefix and the contract's name, and its
\* replacement is the hash of that id, also when the contract's annotation
\* carries another id.
C11_StandaloneUsesCanonicalId ==
    \A v \in CheckedLocations :
        StandaloneDecidedWith(doc, v, CanonicalId(doc, ContractOf(doc, v)))

\* C11, amended: the standalone hash check is decided with the id of the
\* contract's single struct annotation, and its replacement is the hash of
\* that id, also when that id differs from the canonical one.
C11_StandaloneUsesAnnotatedId ==
    \A v \in CheckedLocations :
        StandaloneDecidedWith(doc, v, ExpectedIdOf(doc, ContractOf(doc, v)))

C11_Witness ==
    /\ pc = "done"
    /\ \E v \in CheckedLocations :
           /\ ~SameText(ExpectedIdOf(doc, ContractOf(doc, v)),
                        CanonicalId(doc, ContractOf(doc, v)))
           /\ \E k \in CodesFrom(NAMESPACE_STANDALONE_HASH_MISMATCH,
                                  FirstTokenStart(doc, InitializerOf(doc, v))) :
                  diagnostics[k].data.replacement =
                      <<calculateERC7201StorageLocation(ExpectedIdOf(doc, ContractOf(doc, v)))>>

\* ------------------------------------------------------------------ C12
\* The hash validator has run on the contract at the cursor.
HashValidated ==
    /\ pc \in {"variables", "contract", "thrown"}
    /\ inferredUpgradeable
    /\ foundSingleNamespace.defined

\* The state variables of the document that are named as a storage location
\* and have an initializer.
InitializedLocations(t) ==
    {v \in 1..Len(t) :
        /\ ~t[v].term /\ t[v].kind = "StateVariableDefinition"
        /\ IsStorageLocationName(NameText(t, v))
        /\ InitializerOf(t, v) # 0}

\* C12: every NamespaceHashMismatch and NamespaceStandaloneHashMismatch
\* diagnostic lies at the initializer of a state variable whose name ends in
\* _STORAGE_LOCATION or StorageLocation, so that such a variable without an
\* initializer yields none and no later variable's initializer is checked in
\* its place; and the scan visits every state variable of the contract.
C12_HashCheckOnOwnInitializer ==
    /\ \A k \in Codes(NAMESPACE_HASH_MISMATCH) \cup Codes(NAMESPACE_STANDALONE_HASH_MISMATCH) :
           \E v \in InitializedLocations(doc) :
               diagnostics[k].range.start = FirstTokenStart(doc, InitializerOf(doc, v))
    /\ HashValidated =>
           {visited[n] : n \in DOMAIN visited}
               = NodesIn(doc, cursor.pos, "StateVariableDefinition")

====
